---- MODULE Spec2Model ----
(***************************************************************************)
(* A model of matrixstats.py: the paginated history fetcher                *)
(* (get_all_messages_for_room), the cache merger (get_all_events) and the  *)
(* display-name resolver (get_display_names).                              *)
(*                                                                         *)
(* The remote API and the HDF store are the environment: the remote's      *)
(* answers are drawn from small sets, the store is a mapping from stored   *)
(* key to snapshot with an open/closed flag.                               *)
(***************************************************************************)
EXTENDS Integers, Sequences, FiniteSets, TLC

VARIABLES
  fetch,     \* frame of get_all_messages_for_room: pc, i, token, messages, stop_time
  served,    \* the remote's log of its answers to the page requests (line 37)
  initServed, \* the remote's log of its answers to the initial-token request (line 30)
  args,      \* arguments of get_all_events: rooms, cache, refresh_cache, stop_time
  remote,    \* how the remote answers for each requested room; it does not change
  store,     \* the persisted HDF store: stored key -> snapshot
  storeOpen, \* whether an HDFStore handle on the file is open
  store0,    \* the stored keys when the current pass was entered
  gae,       \* frame of get_all_events: pc, cache, missing_keys, key, messages, pending
  calls,     \* remote requests issued by the current pass
  returned,  \* what the passes so far returned, and how many requests each issued
  gdn,       \* frame of get_display_names: pc, senders, template, n, display_names
  lookups    \* the remote's log of display-name lookups: the id asked, and the answer

fetchVars == <<fetch, served, initServed>>

eventVars == <<args, remote, store, storeOpen, store0, gae, calls, returned>>

nameVars == <<gdn, lookups>>

vars == <<fetchVars, eventVars, nameVars>>

----------------------------------------------------------------------------
(* Bounds of the model. *)

\* The remote answers the first MaxVaried page requests with any page shape;
\* later requests get one of the tail answers.
MaxVaried == 2

\* The longest list of senders given to get_display_names.
MaxSenders == 2

\* How many times in a row get_all_events is run with the same arguments.
MaxRuns == 2

----------------------------------------------------------------------------
(* Program constants. *)

\* for i in range(100)
MaxPages == 100

\* pd.Timestamp("2019/01/01"), counted in whole days since the epoch instead
\* of milliseconds (1546300800000 ms = 17897 days).
Cutoff == 17897

----------------------------------------------------------------------------
(* Values. *)

\* stop_time is <<>> for None and <<t>> for a number t.
NoStopTime == <<>>

StopTimes == {NoStopTime, <<0>>, <<17500>>}

\* Python truthiness of stop_time (`if stop_time:`): None and 0 are falsy.
Truthy(st) == st # <<>> /\ st[1] # 0

\* An answer of api.get_room_messages: MatrixRequestError, or a page.
RequestError == [ok |-> FALSE, chunk |-> <<>>, end |-> 0]

Page(chunk, end) == [ok |-> TRUE, chunk |-> chunk, end |-> end]

\* The chunk of page request p holding n events of which the first `old` are
\* older than the cutoff and the others lie exactly on it.
Chunk(p, n, old) ==
  [j \in 1..n |-> [origin_server_ts |-> IF j <= old THEN Cutoff - 1 ELSE Cutoff,
                   event_id |-> <<p, j>>]]

\* <<number of events, number older than the cutoff>> of the pages the
\* remote may return.
Shapes == {<<0, 0>>, <<1, 0>>, <<1, 1>>, <<11, 10>>, <<12, 11>>, <<33, 30>>}

\* The answers the remote may give to page request number p made with `token`.
PageResponses(p, token) ==
  IF p <= MaxVaried
    THEN {Page(Chunk(p, sh[1], sh[2]), token + 1) : sh \in Shapes}
           \cup {Page(Chunk(p, 1, 0), token)}
           \cup {RequestError}
    ELSE {Page(Chunk(p, 1, 0), token + 1), Page(<<>>, token + 1), RequestError}

\* The answers the remote may give to the initial-token request; the chunk of
\* that answer is not read.
InitialResponses == {Page(<<>>, 1), RequestError}

----------------------------------------------------------------------------
(* get_all_messages_for_room *)

\* The largest power of two that is at most k (k >= 1).
RECURSIVE Pow2Floor(_)
Pow2Floor(k) == IF k < 2 THEN 1 ELSE 2 * Pow2Floor(k \div 2)

\* len(stopping) > (len(times)/1.1) with k = len(stopping), n = len(times).
\* The division is an IEEE-754 double division by the double nearest to 1.1,
\* which is 1.1 * (1 + (4/11) * 2^-52).  Off the boundary 11k = 10n the
\* rounding cannot change the comparison.  On the boundary the exact quotient
\* is k * (1 - (8/11) * 2^-53), which rounds to a double below k exactly when
\* 8k > 11 * 2^floor(log2 k), and to k itself otherwise.
ExceedsFraction(k, n) ==
  IF 11 * k # 10 * n
    THEN 11 * k > 10 * n
    ELSE k > 0 /\ 8 * k > 11 * Pow2Floor(k)

\* times = [e['origin_server_ts'] for e in m1['chunk']]
Times(chunk) == [j \in 1..Len(chunk) |-> chunk[j].origin_server_ts]

\* np.less(times, stop_time).nonzero()[0]
Stopping(times, stop_time) == {j \in 1..Len(times) : times[j] < stop_time[1]}

\* The frame at entry: token = "" (0), messages = [].  pc is the position of
\* the call: "init" before line 30, "loop" at the head of the for loop, and
\* "return33", "return48", "return52" after the return of that line.
FetchEntry(stop_time) ==
  [pc |-> "init", i |-> 0, token |-> 0, messages |-> <<>>, stop_time |-> stop_time]

\* Lines 29-33: the initial-token request.
InitStep(s, r) ==
  IF ~r.ok
    THEN [s EXCEPT !.pc = "return33"]
    ELSE [s EXCEPT !.pc = "loop", !.token = r.end]

\* ForNext with the bound off by one: range(101).
ForNextOffByOne(s) == s.i <= MaxPages

\* for i in range(100): whether the loop has another iteration.
ForNext(s) == s.i < MaxPages

\* The early return of lines 42-48 fires on this page.
StopsEarly(s, r) ==
  /\ Truthy(s.stop_time)
  /\ ExceedsFraction(Cardinality(Stopping(Times(r.chunk), <<Cutoff>>)),
                     Len(Times(r.chunk)))

\* PageStep with a failed request discarding what was accumulated.
PageStepDropsOnError(s, r) ==
  IF ~r.ok
    THEN [s EXCEPT !.pc = "return52", !.i = s.i + 1, !.messages = <<>>]
    ELSE [pc |-> IF StopsEarly(s, r) THEN "return48"
                 ELSE IF r.chunk = <<>> THEN "return52"
                 ELSE "loop",
          i |-> s.i + 1,
          token |-> r.end,
          messages |-> s.messages \o r.chunk,
          stop_time |-> IF Truthy(s.stop_time) THEN <<Cutoff>> ELSE s.stop_time]

\* PageStep without the break on an empty page (lines 50-51).
PageStepNoBreak(s, r) ==
  IF ~r.ok
    THEN [s EXCEPT !.pc = "return52", !.i = s.i + 1]
    ELSE [pc |-> IF StopsEarly(s, r) THEN "return48" ELSE "loop",
          i |-> s.i + 1,
          token |-> r.end,
          messages |-> s.messages \o r.chunk,
          stop_time |-> IF Truthy(s.stop_time) THEN <<Cutoff>> ELSE s.stop_time]

\* Lines 36-51: one iteration of the loop, r being the remote's answer.
PageStep(s, r) ==
  IF ~r.ok
    THEN [s EXCEPT !.pc = "return52", !.i = s.i + 1]
    ELSE [pc |-> IF StopsEarly(s, r) THEN "return48"
                 ELSE IF r.chunk = <<>> THEN "return52"
                 ELSE "loop",
          i |-> s.i + 1,
          token |-> r.end,
          messages |-> s.messages \o r.chunk,
          stop_time |-> IF Truthy(s.stop_time) THEN <<Cutoff>> ELSE s.stop_time]

\* Line 52 reached by exhausting range(100).
ExhaustStep(s) == [s EXCEPT !.pc = "return52"]

\* The call has returned `messages` (line 33, 48 or 52).
Returned(s) == s.pc \in {"return33", "return48", "return52"}

\* The state when get_all_messages_for_room is not being stepped.
FetchIdle ==
  /\ fetch = [FetchEntry(NoStopTime) EXCEPT !.pc = "idle"]
  /\ served = <<>>
  /\ initServed = <<>>

----------------------------------------------------------------------------
(* get_all_events *)

\* Python dicts are functions on a finite set of keys.
EmptyDict == [k \in {} |-> <<>>]

DictPut(d, k, v) == [x \in DOMAIN d \cup {k} |-> IF x = k THEN v ELSE d[x]]

DictPop(d, k) == [x \in DOMAIN d \ {k} |-> d[x]]

\* DictPopAll that pops nothing.
DictPopAllNothing(d, ks) == d

RECURSIVE DictPopAll(_, _)
DictPopAll(d, ks) ==
  IF ks = {} THEN d
  ELSE LET k == CHOOSE x \in ks : TRUE IN DictPopAll(DictPop(d, k), ks \ {k})

\* Room keys are strings, modelled as sequences of characters.
Keys == {<<"A">>, <<"B">>, <<"C">>}

\* The order in which a dict yields its keys (insertion order).
KeyOrder == << <<"A">>, <<"B">>, <<"C">> >>

Items(d) == SelectSeq(KeyOrder, LAMBDA k : k \in DOMAIN d)

RoomId(key) == <<"!">> \o key

\* HDFStore keeps the node of key k under the path "/" + k, and keys() lists
\* the paths.
StoredKey(key) == <<"/">> \o key

\* key[1:]
StripPrefix(path) == SubSeq(path, 2, Len(path))

\* StorePut whose write never reaches the file.
StorePutLost(st, key, df) == st

\* StorePut on a file opened for writing afresh: the other nodes are gone.
StorePutTruncates(st, key, df) == [path \in {StoredKey(key)} |-> df]

\* store[key] = df, store.put(key, df)
StorePut(st, key, df) == DictPut(st, StoredKey(key), df)

\* LoadCache that keeps the stored paths as keys (no key[1:]).
LoadCacheUnstripped(st) == [path \in DOMAIN st |-> st[path]]

\* {key[1:]: store.get(key) for key in store.keys()}
LoadCache(st) ==
  [k \in {StripPrefix(path) : path \in DOMAIN st} |-> st[StoredKey(k)]]

\* cache=None or a file name.
NoCache == <<>>

CacheFile == <<"messages.h5">>

\* `if cache and not refresh_cache`
Reuse(a) == a.cache # <<>> /\ ~a.refresh_cache

\* How a room's remote behaves: "rejects" fails the initial-token request,
\* "empty" has no history, "breaks" fails the second page request, "full"
\* serves two pages and then an empty one.
RemoteKinds == {"rejects", "empty", "breaks", "full"}

RoomInitial(kind) == IF kind = "rejects" THEN RequestError ELSE Page(<<>>, 1)

RoomPage(kind, id, p, token) ==
  IF kind = "empty" \/ p > 2 THEN Page(<<>>, token)
  ELSE IF p = 1 THEN Page(Chunk(<<id, p>>, 2, 1), token + 1)
  ELSE IF kind = "breaks" THEN RequestError
  ELSE Page(Chunk(<<id, p>>, 1, 1), token + 1)

\* The loop of lines 35-52 run to its return against the remote of one room.
RECURSIVE RunLoop(_, _, _)
RunLoop(s, kind, id) ==
  IF s.pc # "loop" THEN s
  ELSE IF ~ForNext(s) THEN ExhaustStep(s)
  ELSE RunLoop(PageStep(s, RoomPage(kind, id, s.i + 1, s.token)), kind, id)

\* One whole call of get_all_messages_for_room: the frame at its return.
FetchRoom(kind, id, stop_time) ==
  RunLoop(InitStep(FetchEntry(stop_time), RoomInitial(kind)), kind, id)

\* The requests the call issued: the initial-token request and the pages.
RequestsOf(s) == 1 + s.i

\* events_to_dataframe: one row per event, in the order given, with the
\* timestamp as the index.
EventsToDataframe(list_o_json) ==
  [j \in 1..Len(list_o_json) |->
     [index |-> list_o_json[j].origin_server_ts,
      event_id |-> list_o_json[j].event_id]]

\* The snapshot a store holds for a key before the first pass.
OldSnapshot(key) == EventsToDataframe(Chunk(<<RoomId(key), 0>>, 1, 1))

GaeEntry ==
  [pc |-> "entry", cache |-> EmptyDict, missing_keys |-> {}, key |-> <<>>,
   messages |-> EmptyDict, pending |-> <<>>]

\* The state when get_all_events is not being run.
EventsIdle ==
  /\ args = [rooms |-> {}, cache |-> NoCache, refresh_cache |-> FALSE,
             stop_time |-> NoStopTime]
  /\ remote = EmptyDict
  /\ store = EmptyDict
  /\ storeOpen = FALSE
  /\ store0 = {}
  /\ gae = [GaeEntry EXCEPT !.pc = "idle"]
  /\ calls = 0
  /\ returned = <<>>

----------------------------------------------------------------------------
(* get_display_names *)

\* User ids are strings, modelled as sequences of their parts.
Senders ==
  { <<"@Cadair", ":", "matrix.org">>, <<"@bob", ":", "example.org">>, <<"carol">> }

\* template=None, or a format string around {s}.
NoTemplate == <<>>

SlackTemplate == [before |-> <<"@slack_">>, after |-> <<":", "matrix.org">>]

\* template.format(s=s)
Format(template, s) == template.before \o s \o template.after

\* ":" in s
HasColon(s) == \E j \in 1..Len(s) : s[j] = ":"

\* Lines 177-178.
Canonical(s) ==
  IF s = <<"@Cadair", ":", "matrix.org">> THEN <<"@cadair", ":", "cadair.com">> ELSE s

\* Line 179: the template is applied to this (canonical) id.
Templated(template, s) == template # NoTemplate /\ ~HasColon(s)

\* The id looked up for input sender s0 (lines 177-180).
LookupId(template, s0) ==
  IF Templated(template, Canonical(s0))
    THEN Format(template, Canonical(s0))
    ELSE Canonical(s0)

\* The flag m at line 186.
Marked(template, s0) == ~Templated(template, Canonical(s0))

\* What api.get_display_name may answer for an id: a display name, or an error.
LookupError == [ok |-> FALSE, name |-> <<>>]

LookupAnswers(s) == {LookupError, [ok |-> TRUE, name |-> <<"Name of">> \o s]}

\* DisplayName with the marker appended when the lookup failed instead.
DisplayNameMarksFailure(template, s0, r) ==
  IF r.ok THEN r.name ELSE LookupId(template, s0) \o <<"*">>

\* Lines 176-188: the entry appended for input sender s0 when the lookup
\* answers r.
DisplayName(template, s0, r) ==
  LET dn == IF r.ok THEN r.name ELSE LookupId(template, s0) IN
    IF Marked(template, s0) THEN dn \o <<"*">> ELSE dn

RECURSIVE SeqsUpTo(_, _)
SeqsUpTo(S, n) ==
  IF n = 0 THEN {<<>>}
  ELSE LET shorter == SeqsUpTo(S, n - 1) IN
         shorter \cup {Append(q, x) : q \in shorter, x \in S}

\* The state when get_display_names is not being run.
NamesIdle ==
  /\ gdn = [pc |-> "idle", senders |-> <<>>, template |-> NoTemplate, n |-> 0,
            display_names |-> <<>>]
  /\ lookups = <<>>

InitNames ==
  /\ FetchIdle
  /\ EventsIdle
  /\ gdn \in [pc : {"loop"}, senders : SeqsUpTo(Senders, MaxSenders),
              template : {NoTemplate, SlackTemplate}, n : {0},
              display_names : {<<>>}]
  /\ lookups = <<>>

\* One iteration of the loop of lines 175-188; n senders are done.
LookupNext ==
  /\ gdn.pc = "loop"
  /\ gdn.n < Len(gdn.senders)
  /\ LET s0 == gdn.senders[gdn.n + 1] IN
       \E r \in LookupAnswers(LookupId(gdn.template, s0)) :
         /\ gdn' = [gdn EXCEPT !.n = gdn.n + 1,
                               !.display_names =
                                  Append(gdn.display_names,
                                         DisplayName(gdn.template, s0, r))]
         /\ lookups' = Append(lookups, [id |-> LookupId(gdn.template, s0),
                                        answer |-> r])
  /\ UNCHANGED <<fetchVars, eventVars>>

\* Line 189.
ReturnNames ==
  /\ gdn.pc = "loop"
  /\ gdn.n = Len(gdn.senders)
  /\ gdn' = [gdn EXCEPT !.pc = "returned"]
  /\ UNCHANGED <<lookups, fetchVars, eventVars>>

NextNames == LookupNext \/ ReturnNames

SpecNames == InitNames /\ [][NextNames]_vars

----------------------------------------------------------------------------
(* get_all_events, one store or fetch operation per step. *)

InitEvents ==
  /\ FetchIdle
  /\ NamesIdle
  /\ \E rs \in SUBSET Keys :
       /\ args \in [rooms : {rs}, cache : {NoCache, CacheFile},
                    refresh_cache : BOOLEAN, stop_time : StopTimes]
       /\ remote \in [rs -> RemoteKinds]
  /\ \E ks \in SUBSET Keys : store = [path \in {StoredKey(k) : k \in ks} |->
                                        OldSnapshot(StripPrefix(path))]
  /\ storeOpen = FALSE
  /\ store0 = DOMAIN store
  /\ gae = GaeEntry
  /\ calls = 0
  /\ returned = <<>>

\* Lines 85-87.  Opening the store or reading a node may raise.
OpenAndLoad ==
  /\ gae.pc = "entry"
  /\ Reuse(args)
  /\ \/ /\ gae' = [gae EXCEPT !.pc = "raised"]
        /\ storeOpen' \in BOOLEAN
     \/ /\ gae' = [gae EXCEPT !.pc = "loop",
                              !.cache = LoadCache(store),
                              !.missing_keys = args.rooms \ DOMAIN LoadCache(store)]
        /\ storeOpen' = TRUE
  /\ UNCHANGED <<args, remote, store, store0, calls, returned, fetchVars, nameVars>>

\* Lines 88-90: the next missing key, in the order the set yields it.
FetchMissing ==
  /\ gae.pc = "loop"
  /\ \E key \in gae.missing_keys :
       LET s == FetchRoom(remote[key], RoomId(key), args.stop_time) IN
       /\ gae' = [gae EXCEPT !.pc = "write",
                             !.key = key,
                             !.missing_keys = gae.missing_keys \ {key},
                             !.cache = DictPut(gae.cache, key,
                                               EventsToDataframe(s.messages))]
       /\ calls' = calls + RequestsOf(s)
  /\ UNCHANGED <<args, remote, store, storeOpen, store0, returned, fetchVars, nameVars>>

\* Line 91.  The write may raise.
WriteFetched ==
  /\ gae.pc = "write"
  /\ \/ /\ gae' = [gae EXCEPT !.pc = "raised"]
        /\ UNCHANGED store
     \/ /\ gae' = [gae EXCEPT !.pc = "loop"]
        /\ store' = StorePut(store, gae.key, gae.cache[gae.key])
  /\ UNCHANGED <<args, remote, storeOpen, store0, calls, returned, fetchVars, nameVars>>

\* Lines 92-95.
PruneAndReturn ==
  /\ gae.pc = "loop"
  /\ gae.missing_keys = {}
  /\ LET pruned == DictPopAll(gae.cache, DOMAIN gae.cache \ args.rooms) IN
       /\ gae' = [gae EXCEPT !.pc = "returned", !.cache = pruned]
       /\ returned' = Append(returned, [value |-> pruned, calls |-> calls])
  /\ storeOpen' = FALSE
  /\ UNCHANGED <<args, remote, store, store0, calls, fetchVars, nameVars>>

\* Lines 96-97.
EnterElse ==
  /\ gae.pc = "entry"
  /\ ~Reuse(args)
  /\ gae' = [gae EXCEPT !.pc = "fetchall", !.messages = EmptyDict,
                        !.pending = SelectSeq(KeyOrder, LAMBDA k : k \in args.rooms)]
  /\ UNCHANGED <<args, remote, store, storeOpen, store0, calls, returned, fetchVars, nameVars>>

\* Lines 98-100: one iteration over rooms.items().
FetchEach ==
  /\ gae.pc = "fetchall"
  /\ gae.pending # <<>>
  /\ LET key == Head(gae.pending)
         s == FetchRoom(remote[key], RoomId(key), args.stop_time) IN
       /\ gae' = [gae EXCEPT !.pending = Tail(gae.pending),
                             !.messages = DictPut(gae.messages, key,
                                                  EventsToDataframe(s.messages))]
       /\ calls' = calls + RequestsOf(s)
  /\ UNCHANGED <<args, remote, store, storeOpen, store0, returned, fetchVars, nameVars>>

\* Lines 101 and 105 when refresh_cache is false.
ReturnUncached ==
  /\ gae.pc = "fetchall"
  /\ gae.pending = <<>>
  /\ ~args.refresh_cache
  /\ gae' = [gae EXCEPT !.pc = "returned"]
  /\ returned' = Append(returned, [value |-> gae.messages, calls |-> calls])
  /\ UNCHANGED <<args, remote, store, storeOpen, store0, calls, fetchVars, nameVars>>

\* Lines 101-102: `with pd.HDFStore(cache) as store`.  Opening raises when
\* cache is None, and may raise otherwise.
OpenForRefresh ==
  /\ gae.pc = "fetchall"
  /\ gae.pending = <<>>
  /\ args.refresh_cache
  /\ \/ /\ gae' = [gae EXCEPT !.pc = "raised"]
        /\ UNCHANGED storeOpen
     \/ /\ args.cache # NoCache
        /\ gae' = [gae EXCEPT !.pc = "put", !.pending = Items(gae.messages)]
        /\ storeOpen' = TRUE
  /\ UNCHANGED <<args, remote, store, store0, calls, returned, fetchVars, nameVars>>

\* Lines 103-104: one iteration over messages.items().  A put that raises
\* leaves the with block, which closes the store.
PutEach ==
  /\ gae.pc = "put"
  /\ gae.pending # <<>>
  /\ \/ /\ gae' = [gae EXCEPT !.pc = "raised"]
        /\ storeOpen' = FALSE
        /\ UNCHANGED store
     \/ /\ gae' = [gae EXCEPT !.pending = Tail(gae.pending)]
        /\ store' = StorePut(store, Head(gae.pending), gae.messages[Head(gae.pending)])
        /\ UNCHANGED storeOpen
  /\ UNCHANGED <<args, remote, store0, calls, returned, fetchVars, nameVars>>

\* The end of the with block, and line 105.
CloseAndReturn ==
  /\ gae.pc = "put"
  /\ gae.pending = <<>>
  /\ gae' = [gae EXCEPT !.pc = "returned"]
  /\ storeOpen' = FALSE
  /\ returned' = Append(returned, [value |-> gae.messages, calls |-> calls])
  /\ UNCHANGED <<args, remote, store, store0, calls, fetchVars, nameVars>>

\* get_all_events is called again with the same arguments, as load_messages
\* does when the script is run again.
RunAgain ==
  /\ gae.pc = "returned"
  /\ Len(returned) < MaxRuns
  /\ gae' = GaeEntry
  /\ calls' = 0
  /\ store0' = DOMAIN store
  /\ UNCHANGED <<args, remote, store, storeOpen, returned, fetchVars, nameVars>>

NextEvents ==
  \/ OpenAndLoad \/ FetchMissing \/ WriteFetched \/ PruneAndReturn
  \/ EnterElse \/ FetchEach \/ ReturnUncached \/ OpenForRefresh
  \/ PutEach \/ CloseAndReturn \/ RunAgain

SpecEvents == InitEvents /\ [][NextEvents]_vars

----------------------------------------------------------------------------
(* The fetcher, one remote call per step. *)

InitFetch ==
  /\ fetch \in {FetchEntry(st) : st \in StopTimes}
  /\ served = <<>>
  /\ initServed = <<>>
  /\ EventsIdle
  /\ NamesIdle

RequestInitialToken ==
  /\ fetch.pc = "init"
  /\ \E r \in InitialResponses :
       /\ fetch' = InitStep(fetch, r)
       /\ initServed' = Append(initServed, r)
  /\ UNCHANGED <<served, eventVars, nameVars>>

RequestPage ==
  /\ fetch.pc = "loop"
  /\ ForNext(fetch)
  /\ \E r \in PageResponses(Len(served) + 1, fetch.token) :
       /\ fetch' = PageStep(fetch, r)
       /\ served' = Append(served, r)
  /\ UNCHANGED <<initServed, eventVars, nameVars>>

LoopExhausted ==
  /\ fetch.pc = "loop"
  /\ ~ForNext(fetch)
  /\ fetch' = ExhaustStep(fetch)
  /\ UNCHANGED <<served, initServed, eventVars, nameVars>>

NextFetch == RequestInitialToken \/ RequestPage \/ LoopExhausted

SpecFetch == InitFetch /\ [][NextFetch]_vars

----------------------------------------------------------------------------
(* Properties of get_all_messages_for_room, checked under SpecFetch. *)

\* The chunks of a log of answers, concatenated in the order of the log.
RECURSIVE ConcatChunks(_)
ConcatChunks(log) ==
  IF log = <<>> THEN <<>>
  ELSE ConcatChunks(SubSeq(log, 1, Len(log) - 1)) \o log[Len(log)].chunk

\* How many events of a chunk are older than the cutoff.
OlderThanCutoff(chunk) ==
  Cardinality({j \in 1..Len(chunk) : chunk[j].origin_server_ts < Cutoff})

\* C1: one call issues one initial-token request and at most 100 page
\* requests, whatever the remote answers; after the 100th page the call
\* has returned or returns at its next step, with no further request.
C1_PageBound ==
  /\ Len(initServed) <= 1
  /\ Len(served) <= MaxPages
  /\ Len(served) = MaxPages =>
       \/ Returned(fetch)
       \/ (ENABLED LoopExhausted) /\ ~(ENABLED RequestPage)

\* C1 witness: a remote that never fails and never returns an empty page was
\* asked 100 pages, and the call has returned.
C1_Witness ==
  /\ Returned(fetch)
  /\ Len(served) = MaxPages
  /\ \A k \in 1..Len(served) : served[k].ok /\ served[k].chunk # <<>>

\* C4 (as stated): with a stop-time hint supplied, a non-empty page with
\* more than 1/1.1 of its events older than the cutoff is appended once and
\* is the last page requested, the call returning at line 48; a page with at
\* most that fraction never triggers that return.
C4_EarlyReturnAboveFraction ==
  \A k \in 1..Len(served) :
    (fetch.stop_time # NoStopTime /\ served[k].ok /\ served[k].chunk # <<>>) =>
      LET n == Len(served[k].chunk)
          old == OlderThanCutoff(served[k].chunk) IN
        /\ 11 * old > 10 * n =>
             /\ k = Len(served)
             /\ fetch.pc = "return48"
             /\ fetch.messages = ConcatChunks(served)
        /\ 11 * old <= 10 * n => ~(k = Len(served) /\ fetch.pc = "return48")

\* C7: a failed request is never raised out of the call and loses nothing:
\* after a failed initial-token request the call has returned [] without a
\* page request; a failed k-th page request is the last request, and the
\* call has returned the chunks of pages 1..k-1 concatenated.
C7_FailureKeepsPartial ==
  /\ fetch.pc \in {"init", "loop", "return33", "return48", "return52"}
  /\ (initServed # <<>> /\ ~initServed[1].ok) =>
       fetch.pc = "return33" /\ fetch.messages = <<>> /\ served = <<>>
  /\ \A k \in 1..Len(served) :
       ~served[k].ok =>
         /\ k = Len(served)
         /\ fetch.pc = "return52"
         /\ fetch.messages = ConcatChunks(SubSeq(served, 1, k - 1))

\* C7 witness: the third page request failed after two non-empty pages.
C7_Witness ==
  /\ Len(served) = 3
  /\ ~served[3].ok
  /\ served[1].chunk # <<>> /\ served[2].chunk # <<>>
  /\ fetch.pc = "return52"

\* C10: when no request fails and the early return does not fire, the
\* messages are the chunks received so far in order, each once; no page is
\* requested after an empty page; and the call returns only after an empty
\* page or after 100 pages.
C10_PaginatesToEmptyPage ==
  (/\ fetch.pc \in {"loop", "return52"}
   /\ \A k \in 1..Len(served) : served[k].ok) =>
     /\ fetch.messages = ConcatChunks(served)
     /\ \A k \in 1..(Len(served) - 1) : served[k].chunk # <<>>
     /\ (served # <<>> /\ served[Len(served)].chunk = <<>>) => fetch.pc = "return52"
     /\ fetch.pc = "return52" =>
          \/ Len(served) = MaxPages
          \/ served # <<>> /\ served[Len(served)].chunk = <<>>
     /\ (Len(served) = 1 /\ served[1].chunk = <<>>) => fetch.messages = <<>>

\* C10 witness: with a stop-time hint, an 11-event page that does not trigger
\* the early return and then an empty page: two requests, those 11 events.
C10_Witness ==
  /\ fetch.pc = "return52"
  /\ Truthy(fetch.stop_time)
  /\ Len(served) = 2
  /\ served[1].ok /\ Len(served[1].chunk) = 11
  /\ served[2].ok /\ served[2].chunk = <<>>
  /\ fetch.messages = served[1].chunk

----------------------------------------------------------------------------
(* Properties of get_all_events, checked under SpecEvents. *)

\* The room keys a set of stored paths stands for.
StoredRoomKeys(paths) == {StripPrefix(path) : path \in paths}

\* C2 (as stated): after a completed reuse pass the persisted store's key
\* set equals the requested room keys.
C2_StoreEqualsRequested ==
  (Reuse(args) /\ gae.pc = "returned") =>
    StoredRoomKeys(DOMAIN store) = args.rooms

\* C2 (amended): after a completed reuse pass the persisted store holds
\* exactly the keys it held when the pass began together with the requested
\* keys; unrequested keys are dropped from the returned mapping only.
C2_StoreKeepsStaleKeys ==
  (Reuse(args) /\ gae.pc = "returned") =>
    /\ StoredRoomKeys(DOMAIN store) = StoredRoomKeys(store0) \cup args.rooms
    /\ DOMAIN returned[Len(returned)].value = args.rooms

\* C2 witness: a reuse pass completed on a store that held an unrequested
\* key and lacked a requested one.
C2_Witness ==
  /\ Reuse(args) /\ gae.pc = "returned"
  /\ StoredRoomKeys(store0) \ args.rooms # {}
  /\ args.rooms \ StoredRoomKeys(store0) # {}

\* C3 (as stated): whenever get_all_events has exited, by returning or by
\* raising, the store is closed.
C3_StoreClosedOnExit ==
  gae.pc \in {"returned", "raised"} => ~storeOpen

\* C5: reuse passes run in a row with the same arguments return the same
\* mapping, and every pass after the first issues no remote request.
C5_SecondReusePassIdentical ==
  Reuse(args) =>
    /\ \A j \in 2..Len(returned) :
         /\ returned[j].value = returned[j - 1].value
         /\ returned[j].calls = 0
    /\ (Len(returned) >= 1 /\ gae.pc # "returned") => calls = 0

\* C5 witness: two reuse passes have returned, the first having fetched a
\* room whose initial-token request failed.
C5_Witness ==
  /\ Reuse(args)
  /\ Len(returned) = 2
  /\ returned[1].calls > 0
  /\ \E k \in args.rooms : remote[k] = "rejects" /\ returned[1].value[k] = <<>>

\* C6: in a reuse pass the store keeps every key it held when the pass
\* began, and whenever the fetch of a missing room is about to start or the
\* loop is over, every room fetched so far is in the store with the snapshot
\* fetched; while a snapshot is being written only that room is not yet
\* stored.
C6_IncrementalDurability ==
  (Reuse(args) /\ gae.pc \in {"loop", "write", "returned"}) =>
    /\ store0 \subseteq DOMAIN store
    /\ \A k \in DOMAIN gae.cache :
         (gae.pc = "write" /\ k = gae.key) \/
         (StoredKey(k) \in DOMAIN store /\ store[StoredKey(k)] = gae.cache[k])

\* C6 witness: the store held A, rooms A and B are requested, B has been
\* fetched with events and written, and the pass has not yet finished.
C6_Witness ==
  /\ Reuse(args) /\ gae.pc = "loop"
  /\ store0 = {StoredKey(<<"A">>)}
  /\ args.rooms = {<<"A">>, <<"B">>}
  /\ gae.missing_keys = {}
  /\ DOMAIN store = {StoredKey(<<"A">>), StoredKey(<<"B">>)}
  /\ store[StoredKey(<<"B">>)] # <<>>

\* C8: every mapping get_all_events returns has exactly the requested keys,
\* on both paths; a room whose fetch failed has an entry: an empty snapshot
\* when the initial-token request failed, the first page's two events when
\* the second page request failed.
C8_ReturnedKeysAreRequested ==
  \A j \in 1..Len(returned) :
    /\ DOMAIN returned[j].value = args.rooms
    /\ ~Reuse(args) =>
         \A k \in args.rooms :
           /\ remote[k] = "rejects" => returned[j].value[k] = <<>>
           /\ remote[k] = "breaks" => Len(returned[j].value[k]) = 2

\* C8 witness: a reuse pass over a store with an unrequested key returned,
\* having fetched a room whose initial-token request failed.
C8_Witness ==
  /\ Reuse(args)
  /\ Len(returned) = 1
  /\ StoredRoomKeys(store0) \ args.rooms # {}
  /\ \E k \in args.rooms : remote[k] = "rejects" /\ returned[1].value[k] = <<>>

----------------------------------------------------------------------------
(* Properties of get_display_names, checked under SpecNames. *)

\* The entry ends with the marker "*".
HasMarker(dn) == dn # <<>> /\ dn[Len(dn)] = "*"

\* C9 (as stated): the call is never aborted, there is one entry per sender
\* done, in input order; the entry of a failed lookup is the raw identifier
\* followed by "*", and an entry carries the marker exactly when its lookup
\* failed.
C9_MarkerFlagsFallback ==
  /\ gdn.pc \in {"idle", "loop", "returned"}
  /\ Len(gdn.display_names) = gdn.n
  /\ gdn.pc = "returned" => gdn.n = Len(gdn.senders)
  /\ \A j \in 1..gdn.n :
       /\ ~lookups[j].answer.ok =>
            gdn.display_names[j] = gdn.senders[j] \o <<"*">>
       /\ HasMarker(gdn.display_names[j]) <=> ~lookups[j].answer.ok

\* C9 (amended): the call is never aborted by a failed lookup, and there is
\* one entry per sender, in input order.  The entry of a failed lookup is the
\* identifier that was looked up (the sender after the rewrite of
\* "@Cadair:matrix.org" and after the template); the entry of a successful
\* lookup is the display name.  "*" is appended exactly when the template was
\* not applied to the sender, whether or not the lookup failed.
C9_MarkerFlagsUntemplated ==
  /\ gdn.pc \in {"idle", "loop", "returned"}
  /\ Len(gdn.display_names) = gdn.n
  /\ Len(lookups) = gdn.n
  /\ gdn.pc = "returned" => gdn.n = Len(gdn.senders)
  /\ \A j \in 1..gdn.n :
       LET s0 == gdn.senders[j]
           templated == gdn.template # NoTemplate /\ ~HasColon(s0)
           asked == IF templated THEN Format(gdn.template, s0)
                    ELSE IF s0 = <<"@Cadair", ":", "matrix.org">>
                      THEN <<"@cadair", ":", "cadair.com">>
                    ELSE s0
           dn == IF lookups[j].answer.ok THEN lookups[j].answer.name ELSE asked IN
         /\ lookups[j].id = asked
         /\ gdn.display_names[j] = IF templated THEN dn ELSE dn \o <<"*">>
         /\ HasMarker(gdn.display_names[j]) <=> ~templated

\* C9 witness: the call returned two entries; the lookup of a templated
\* sender failed and its entry has no marker, the lookup of an untemplated
\* sender succeeded and its entry has the marker.
C9_Witness ==
  /\ gdn.pc = "returned"
  /\ gdn.n = 2
  /\ \E j \in 1..2 : ~lookups[j].answer.ok /\ ~HasMarker(gdn.display_names[j])
  /\ \E j \in 1..2 : lookups[j].answer.ok /\ HasMarker(gdn.display_names[j])

====
